---- MODULE Spec2Model ----
(***************************************************************************)
(* Model of the real-time chat core of marins-room: the WebSocket server  *)
(* (apps/api/src/websocket), the rate limiter it calls (lib/redis.ts),    *)
(* the response generator wrapper (lib/ai.ts) and the chat HTTP routes    *)
(* that write to the same store (routes/chat.ts).                         *)
(*                                                                         *)
(* Every `await` of a handler splits it: the synchronous code up to the   *)
(* await is one action, the awaited store operation is executed by        *)
(* DbExec at some later instant, and the continuation is a further        *)
(* action.  Handlers of the same or of different connections interleave   *)
(* at these points exactly as they do on the Node event loop.             *)
(***************************************************************************)
EXTENDS Integers, Sequences, FiniteSets, TLC

\* ---- bounds of the model --------------------------------------------------
NumConns    == 1   \* WebSocket connections that may ever be opened
NumSessions == 2   \* session ids (uuids) clients may name
NumIps      == 1   \* distinct client network identities
MaxJoins    == 1   \* JOIN_SESSION handlers in flight at one time
MaxSends    == 1   \* SEND_MESSAGE handlers in flight at one time (Spec)
MaxRacing   == 2   \* SEND_MESSAGE handlers in flight at one time (SpecRace)
MaxReplies  == 1   \* cap on admin HTTP replies per session
Headroom    == 1   \* attempts left in the rate-limit window at start (Spec)
RaceRoom    == 2   \* attempts left in the window at start (SpecRace)
NumPeers    == 2   \* WebSocket connections that may ever be opened (SpecRoom)
MaxBacklog  == 20  \* messages of the session at start (SpecHistory)
MaxTicks    == 2   \* clock readings of the rate limiter (SpecLimiter)
MaxFaulty   == 1   \* handlers in flight at one time (SpecFault)
NumIdentities == 2 \* distinct client network identities (SpecShared)
NumMembers  == 3   \* registered connections (SpecBroadcast)

Max(a, b) == IF a >= b THEN a ELSE b

Conns    == 1..NumConns
Sessions == 1..NumSessions
Ips      == 1..NumIps
Tasks    == 1..Max(MaxJoins + MaxSends, MaxRacing)
Peers    == 1..NumPeers
Identities == 1..NumIdentities
Members  == 1..NumMembers

\* ---- values ---------------------------------------------------------------
NULL  == 0            \* sessionId: null / exclude: undefined / no connection
BadId == -1           \* a sessionId string that is not a uuid
NoKey == "undefined"  \* adminKey absent from the payload
ADMIN_API_KEY == "secret-of-at-least-32-characters"
AdminKeys == {NoKey, "", ADMIN_API_KEY, "wrong"}
TooLong  == "x-4001"  \* stands for a content string of 4001 characters
Contents == {"", "hello", TooLong}
AiTexts  == {"", "hi there"}   \* "" : generator failed or returned nothing
WsLimit  == 30
Window   == 60          \* windowSeconds of the WebSocket message limit
Step     == 30          \* seconds between two clock readings
Times    == {k * Step : k \in 0..MaxTicks}
MaxContent == 4000
HistoryTake == 20

VARIABLES
  clients,        \* keys of the `clients` map: connections with a ClientState
  clientState,    \* the ClientState objects (handlers in flight keep theirs)
  readyState,     \* ws.readyState of every connection
  sessionClients, \* the `sessionClients` map: session id -> set of connections
  sessions,       \* chatSession table: status of every session id
  messages,       \* chatMessage table: rows of every session in creation order
  rl,             \* rate-limit store: attempts in the window, per client ip
  tasks,          \* handler invocations in flight
  sent,           \* envelopes written to transports by the last step
  lastMsg         \* per connection and session: the message it was sent last

vars == <<clients, clientState, readyState, sessionClients, sessions,
          messages, rl, tasks, sent, lastMsg>>

\* ---- pure helpers ---------------------------------------------------------
ContentLen(c) ==
  CASE c = ""      -> 0
    [] c = "hello" -> 5
    [] c = TooLong -> MaxContent + 1
    [] OTHER       -> 1

\* z.string().uuid()
IsUuid(id) == id >= 1

WsJoinSessionSchema(sessionId) == IsUuid(sessionId)

\* a schema that accepts every content
AnyContent(content) == TRUE

WsSendMessageSchema(content) ==
  ContentLen(content) >= 1 /\ ContentLen(content) <= MaxContent

\* `!adminKey || adminKey !== env.ADMIN_API_KEY` negated
AdminKeyPresent(adminKey) == adminKey # NoKey

\* a check that lets every claim of being the admin through
AdminKeyAny(adminKey) == TRUE

AdminKeyOk(adminKey) ==
  adminKey # NoKey /\ adminKey # "" /\ adminKey = ADMIN_API_KEY

Marin(content) == "[Marin]: " \o content

\* a removal that keeps the set of the session when it has become empty
leaveKept(sc, ws, sessionId) ==
  IF sessionId \in DOMAIN sc
    THEN [sc EXCEPT ![sessionId] = sc[sessionId] \ {ws}]
    ELSE sc

\* a removal that leaves the registry as it is
leaveNothing(sc, ws, sessionId) == sc

\* leaveSession(ws, sessionId) as a function of the map
leaveSession(sc, ws, sessionId) ==
  IF sessionId \in DOMAIN sc
    THEN LET rest == sc[sessionId] \ {ws}
         IN  IF rest = {}
               THEN [s \in (DOMAIN sc) \ {sessionId} |-> sc[s]]
               ELSE [sc EXCEPT ![sessionId] = rest]
    ELSE sc

\* the `if (!sessionClients.has) set(new Set()); get().add(ws)` of a join
addClient(sc, ws, sessionId) ==
  [s \in (DOMAIN sc) \cup {sessionId} |->
     IF s = sessionId
       THEN (IF s \in DOMAIN sc THEN sc[s] ELSE {}) \cup {ws}
       ELSE sc[s]]

\* a broadcast cut short after the first member it writes to
RecipientsFirst(sc, rs, sessionId, exclude) ==
  LET all == IF sessionId \in DOMAIN sc
               THEN {c \in sc[sessionId] : c # exclude /\ rs[c] = "OPEN"}
               ELSE {}
  IN  {c \in all : \A d \in all : c <= d}

\* a broadcast that writes to a member whatever the state of its transport
RecipientsAnyState(sc, rs, sessionId, exclude) ==
  IF sessionId \in DOMAIN sc
    THEN {c \in sc[sessionId] : c # exclude}
    ELSE {}

\* a broadcast that does not skip the excluded connection
RecipientsAll(sc, rs, sessionId, exclude) ==
  IF sessionId \in DOMAIN sc
    THEN {c \in sc[sessionId] : rs[c] = "OPEN"}
    ELSE {}

\* the connections broadcastToSession(sessionId, _, exclude) sends to
Recipients(sc, rs, sessionId, exclude) ==
  IF sessionId \in DOMAIN sc
    THEN {c \in sc[sessionId] : c # exclude /\ rs[c] = "OPEN"}
    ELSE {}

\* a message is identified by its session and its position in the session's
\* creation order
NoMsg == <<>>
MsgId(sid, i) == <<sid, i>>

\* an outbound envelope on the transport of connection `to`
Envelope(to, type, code, sid, id, hist) ==
  [to |-> to, type |-> type, code |-> code, sid |-> sid, id |-> id,
   hist |-> hist]

\* sendError(ws, code, _): nothing is written unless the transport is open
sendError(rs, ws, code) ==
  IF rs[ws] = "OPEN" THEN {Envelope(ws, "ERROR", code, NULL, NoMsg, <<>>)} ELSE {}

\* broadcastToSession(sessionId, { type, payload }): one envelope per recipient
broadcastToSession(sc, rs, sessionId, type, id, exclude) ==
  {Envelope(c, type, "", sessionId, id, <<>>) :
     c \in Recipients(sc, rs, sessionId, exclude)}

IdleTask ==
  [kind |-> "none", conn |-> NULL, pc |-> "idle", pending |-> FALSE,
   threw |-> FALSE, sessionId |-> NULL, content |-> "", asAdmin |-> FALSE,
   arg |-> NULL, status |-> "NONE", allowed |-> FALSE,
   role |-> "", text |-> "", msgId |-> NoMsg, aiId |-> NoMsg,
   hist |-> <<>>, evts |-> <<>>]

\* record of one broadcastToSession call made by a handler
Evt(type, sid) == [type |-> type, sid |-> sid]

Busy(t) == tasks[t].pc # "idle"

\* a server that takes no new message while a generator call is outstanding
SlotWhenNoCall(t) ==
  /\ ~Busy(t)
  /\ \A u \in Tasks : u < t => Busy(u)
  /\ \A u \in Tasks : tasks[u].pc # "getAIResponse"

\* handler slots are interchangeable: a new invocation takes the lowest one
FreeSlot(t) == ~Busy(t) /\ \A u \in Tasks : u < t => Busy(u)

\* ---- checkRateLimit -------------------------------------------------------
\* a member of the sorted set `ratelimit:<key>`: its score, and whether the
\* check that added it was reported allowed
Attempt(at, ok) == [at |-> at, ok |-> ok]

\* n attempts made at time `at`, all of them allowed
Attempts(n, at) == [i \in 1..n |-> Attempt(at, TRUE)]

\* the latest score in the store; Date.now() does not run backwards
Clock(store) ==
  LET ats == UNION {{store[k][i].at : i \in 1..Len(store[k])} : k \in DOMAIN store}
  IN  IF ats = {} THEN 0 ELSE CHOOSE a \in ats : \A b \in ats : b <= a

\* a purge that removes nothing
InWindowEver(e, now, windowSeconds) == TRUE

\* not in the range -inf..windowStart that ZREMRANGEBYSCORE removes
InWindow(e, now, windowSeconds) == e.at > now - windowSeconds

\* a limit that lets one attempt too many through
AllowedUpTo(count, limit) == count <= limit

\* `allowed = count < limit`
Allowed(count, limit) == count < limit

\* a remainder that is not clamped at zero
RemainingSigned(count, limit) == limit - count - 1

\* `remaining: Math.max(0, limit - count - 1)`
Remaining(count, limit) == Max(0, limit - count - 1)

\* the time at which the key is deleted unless it is checked again:
\* `multi.expire(redisKey, windowSeconds)` of the last transaction
ExpiresAt(store, key, windowSeconds) ==
  store[key][Len(store[key])].at + windowSeconds

\* the sorted set the store holds under the key at time `now`
Held(store, key, windowSeconds, now) ==
  IF store[key] = <<>> \/ now >= ExpiresAt(store, key, windowSeconds)
    THEN <<>>
    ELSE store[key]

\* a check that does not record the attempt it has counted
checkOnly(store, key, limit, windowSeconds, now) ==
  LET count == Len(SelectSeq(Held(store, key, windowSeconds, now),
                             LAMBDA e : InWindow(e, now, windowSeconds)))
  IN  [allowed   |-> Allowed(count, limit),
       remaining |-> Remaining(count, limit),
       store     |-> store]

\* the MULTI/EXEC transaction: ZREMRANGEBYSCORE -inf windowStart, ZCARD,
\* ZADD now, EXPIRE
checkRateLimit(store, key, limit, windowSeconds, now) ==
  LET kept  == SelectSeq(Held(store, key, windowSeconds, now),
                         LAMBDA e : InWindow(e, now, windowSeconds))
      count == Len(kept)
  IN  [allowed   |-> Allowed(count, limit),
       remaining |-> Remaining(count, limit),
       store     |-> [store EXCEPT ![key] =
                        Append(kept, Attempt(now, Allowed(count, limit)))]]

\* the attempts of key `ip` that a check made at time `now` counts
Counted(ip, now) ==
  {i \in 1..Len(rl[ip]) : rl[ip][i].at > now - Window}

\* ---- initial state --------------------------------------------------------
Init ==
  /\ clients = {}
  /\ clientState = [c \in Conns |-> [sessionId |-> NULL, isAdmin |-> FALSE, ip |-> 1]]
  /\ readyState = [c \in Conns |-> "NONE"]
  /\ sessionClients = << >>
  /\ sessions = [s \in Sessions |-> "NONE"]
  /\ messages = [s \in Sessions |-> <<>>]
  /\ rl = [i \in Ips |-> Attempts(WsLimit - Headroom, 0)]
  /\ tasks = [t \in Tasks |-> IdleTask]
  /\ sent = {}
  /\ lastMsg = [c \in Conns |-> [s \in Sessions |-> 0]]

\* ---- connection lifecycle -------------------------------------------------
\* wss.on("connection")
Connect(c, ip) ==
  /\ readyState[c] = "NONE"
  /\ readyState' = [readyState EXCEPT ![c] = "OPEN"]
  /\ clients' = clients \cup {c}
  /\ clientState' = [clientState EXCEPT ![c] =
                       [sessionId |-> NULL, isAdmin |-> FALSE, ip |-> ip]]
  /\ sent' = {}
  /\ UNCHANGED <<sessionClients, sessions, messages, rl, tasks, lastMsg>>

\* the transport starts closing: readyState leaves OPEN before "close" fires
TransportClosing(c) ==
  /\ readyState[c] = "OPEN"
  /\ readyState' = [readyState EXCEPT ![c] = "CLOSING"]
  /\ sent' = {}
  /\ UNCHANGED <<clients, clientState, sessionClients, sessions, messages, rl,
                 tasks, lastMsg>>

\* ws.on("close")
OnClose(c) ==
  /\ readyState[c] \in {"OPEN", "CLOSING"}
  /\ readyState' = [readyState EXCEPT ![c] = "CLOSED"]
  /\ sessionClients' =
       IF c \in clients /\ clientState[c].sessionId # NULL
         THEN leaveSession(sessionClients, c, clientState[c].sessionId)
         ELSE sessionClients
  /\ clients' = clients \ {c}
  /\ sent' = {}
  /\ UNCHANGED <<clientState, sessions, messages, rl, tasks, lastMsg>>

\* handleMessage, case "LEAVE_SESSION"
LeaveSession(c) ==
  /\ readyState[c] = "OPEN"
  /\ c \in clients
  /\ IF clientState[c].sessionId # NULL
       THEN /\ sessionClients' =
                 leaveSession(sessionClients, c, clientState[c].sessionId)
            /\ clientState' = [clientState EXCEPT ![c].sessionId = NULL]
       ELSE UNCHANGED <<sessionClients, clientState>>
  /\ sent' = {}
  /\ UNCHANGED <<clients, readyState, sessions, messages, rl, tasks, lastMsg>>

\* an envelope whose payload is { isAdmin }
Tagged(e, isAdmin) ==
  [f \in DOMAIN e \cup {"isAdmin"} |-> IF f = "isAdmin" THEN isAdmin ELSE e[f]]

\* handleMessage, cases "TYPING_START" and "TYPING_STOP"
Typing(c, type) ==
  /\ readyState[c] = "OPEN"
  /\ c \in clients
  /\ sent' = IF clientState[c].sessionId # NULL
               THEN {Tagged(e, clientState[c].isAdmin) :
                       e \in broadcastToSession(sessionClients, readyState,
                                                clientState[c].sessionId,
                                                type, NoMsg, c)}
               ELSE {}
  /\ UNCHANGED <<clients, clientState, readyState, sessionClients, sessions,
                 messages, rl, tasks, lastMsg>>

\* handleMessage, `default:` an envelope of any other type
UnknownType(c) ==
  /\ readyState[c] = "OPEN"
  /\ c \in clients
  /\ sent' = sendError(readyState, c, "UNKNOWN_MESSAGE_TYPE")
  /\ UNCHANGED <<clients, clientState, readyState, sessionClients, sessions,
                 messages, rl, tasks, lastMsg>>

\* ws.on("message"): JSON.parse(data.toString()) throws, or yields a value
\* without properties, and the catch block answers
Malformed(c) ==
  /\ readyState[c] = "OPEN"
  /\ sent' = sendError(readyState, c, "INVALID_MESSAGE")
  /\ UNCHANGED <<clients, clientState, readyState, sessionClients, sessions,
                 messages, rl, tasks, lastMsg>>

\* ---- the store (prisma) ---------------------------------------------------
\* a read that returns the newest message only
findNewest(msgs, sid) ==
  IF msgs[sid] = <<>> THEN <<>> ELSE <<MsgId(sid, Len(msgs[sid]))>>

\* chatMessage.findMany({ where: { sessionId }, orderBy: { createdAt: "asc" } })
findMany(msgs, sid) == [i \in 1..Len(msgs[sid]) |-> MsgId(sid, i)]

\* ... with `take: n`
Take(seq, n) == IF Len(seq) <= n THEN seq ELSE SubSeq(seq, 1, n)

\* chatMessage.create({ data: { sessionId, role, content } })
Row(role, content) == [role |-> role, content |-> content]

create(msgs, sid, role, content) ==
  [msgs EXCEPT ![sid] = Append(msgs[sid], Row(role, content))]

\* the awaited store call of handler t is executed by the store
DbExec(t) ==
  /\ tasks[t].pending
  /\ tasks[t].pc \in {"findSession", "findMessages", "findHistory",
                      "createMessage", "createAiMessage"}
  /\ LET k == tasks[t] IN
     IF k.arg = NULL
       THEN \* a null id is rejected by the client library: the await throws
            /\ tasks' = [tasks EXCEPT ![t].pending = FALSE, ![t].threw = TRUE]
            /\ UNCHANGED messages
       ELSE CASE k.pc = "findSession" ->
                   /\ tasks' = [tasks EXCEPT ![t].pending = FALSE,
                                             ![t].status = sessions[k.arg]]
                   /\ UNCHANGED messages
              [] k.pc = "findMessages" ->
                   /\ tasks' = [tasks EXCEPT ![t].pending = FALSE,
                                             ![t].hist = findMany(messages, k.arg)]
                   /\ UNCHANGED messages
              [] k.pc = "findHistory" ->
                   /\ tasks' = [tasks EXCEPT ![t].pending = FALSE,
                                ![t].hist = Take(findMany(messages, k.arg), HistoryTake)]
                   /\ UNCHANGED messages
              [] k.pc = "createMessage" ->
                   /\ messages' = create(messages, k.arg, k.role, k.text)
                   /\ tasks' = [tasks EXCEPT ![t].pending = FALSE,
                                ![t].msgId = MsgId(k.arg, Len(messages[k.arg]) + 1)]
              [] k.pc = "createAiMessage" ->
                   /\ messages' = create(messages, k.arg, k.role, k.text)
                   /\ tasks' = [tasks EXCEPT ![t].pending = FALSE,
                                ![t].aiId = MsgId(k.arg, Len(messages[k.arg]) + 1)]
  /\ sent' = {}
  /\ UNCHANGED <<clients, clientState, readyState, sessionClients, sessions,
                 rl, lastMsg>>

\* the awaited store call of handler t is rejected: the store is unreachable
\* or the query fails; nothing is written
DbFail(t) ==
  /\ tasks[t].pending
  /\ tasks[t].pc \in {"findSession", "findMessages", "findHistory",
                      "createMessage", "createAiMessage", "updateSession"}
  /\ tasks' = [tasks EXCEPT ![t].pending = FALSE, ![t].threw = TRUE]
  /\ sent' = {}
  /\ UNCHANGED <<clients, clientState, readyState, sessionClients, sessions,
                 messages, rl, lastMsg>>

\* ws.on("message") catch block: an await of the handler rejected
HandlerCatch(t) ==
  /\ tasks[t].threw
  /\ ~tasks[t].pending
  /\ Busy(t)
  /\ tasks' = [tasks EXCEPT ![t] = IdleTask]
  /\ sent' = sendError(readyState, tasks[t].conn, "INVALID_MESSAGE")
  /\ UNCHANGED <<clients, clientState, readyState, sessionClients, sessions,
                 messages, rl, lastMsg>>

Ready(t, pc) ==
  /\ tasks[t].pc = pc
  /\ ~tasks[t].pending
  /\ ~tasks[t].threw

\* ---- handleJoinSession ----------------------------------------------------
\* lines up to `await prisma.chatSession.findUnique`
JoinStart(t, c, sessionId, isAdmin, adminKey) ==
  /\ FreeSlot(t)
  /\ readyState[c] = "OPEN"
  /\ c \in clients
  /\ IF ~WsJoinSessionSchema(sessionId)
       THEN /\ sent' = sendError(readyState, c, "VALIDATION_ERROR")
            /\ UNCHANGED <<clientState, tasks>>
     ELSE IF isAdmin /\ ~AdminKeyOk(adminKey)
       THEN /\ sent' = sendError(readyState, c, "UNAUTHORIZED")
            /\ UNCHANGED <<clientState, tasks>>
     ELSE /\ clientState' = IF isAdmin
                              THEN [clientState EXCEPT ![c].isAdmin = TRUE]
                              ELSE clientState
          /\ tasks' = [tasks EXCEPT ![t] =
                         [IdleTask EXCEPT !.kind = "join", !.conn = c,
                                          !.sessionId = sessionId,
                                          !.pc = "findSession",
                                          !.pending = TRUE, !.arg = sessionId]]
          /\ sent' = {}
  /\ UNCHANGED <<clients, readyState, sessionClients, sessions, messages, rl,
                 lastMsg>>

\* a lookup that binds whatever it is given
NeverMissing(status) == FALSE

\* `!session`: findUnique resolved to null
Missing(status) == status = "NONE"

\* from `if (!session)` to `await prisma.chatMessage.findMany`
JoinFound(t) ==
  /\ tasks[t].kind = "join"
  /\ Ready(t, "findSession")
  /\ LET k == tasks[t]
         c == k.conn
     IN
     IF Missing(k.status)
       THEN /\ tasks' = [tasks EXCEPT ![t] = IdleTask]
            /\ sent' = sendError(readyState, c, "SESSION_NOT_FOUND")
            /\ UNCHANGED <<clientState, sessionClients>>
       ELSE /\ sessionClients' =
                 addClient(IF clientState[c].sessionId # NULL
                             THEN leaveSession(sessionClients, c, clientState[c].sessionId)
                             ELSE sessionClients,
                           c, k.sessionId)
            /\ clientState' = [clientState EXCEPT ![c].sessionId = k.sessionId]
            /\ tasks' = [tasks EXCEPT ![t].pc = "findMessages",
                                      ![t].pending = TRUE,
                                      ![t].arg = k.sessionId]
            /\ sent' = {}
  /\ UNCHANGED <<clients, readyState, sessions, messages, rl, lastMsg>>

\* ws.send(SESSION_JOINED): dropped by the transport unless it is open
JoinSend(t) ==
  /\ tasks[t].kind = "join"
  /\ Ready(t, "findMessages")
  /\ tasks' = [tasks EXCEPT ![t] = IdleTask]
  /\ sent' = IF readyState[tasks[t].conn] = "OPEN"
               THEN {Envelope(tasks[t].conn, "SESSION_JOINED", "",
                              tasks[t].sessionId, NoMsg, tasks[t].hist)}
               ELSE {}
  /\ UNCHANGED <<clients, clientState, readyState, sessionClients, sessions,
                 messages, rl, lastMsg>>

\* ---- handleSendMessage ----------------------------------------------------
\* a broadcastToSession call of handler t, addressed to the session its
\* ClientState names at the time of the call
Broadcast(t, type, id) ==
  LET sid   == clientState[tasks[t].conn].sessionId
      rcpts == Recipients(sessionClients, readyState, sid, NULL)
  IN
  [out  |-> broadcastToSession(sessionClients, readyState, sid, type, id, NULL),
   evts |-> Append(tasks[t].evts, Evt(type, sid)),
   last |-> IF id # NoMsg
              THEN [c \in DOMAIN lastMsg |->
                      IF c \in rcpts THEN [lastMsg[c] EXCEPT ![id[1]] = id[2]]
                                     ELSE lastMsg[c]]
              ELSE lastMsg]

\* a handler that takes every connection for a bound one
NeverUnbound(st) == FALSE

\* `!state.sessionId`
Unbound(st) == st.sessionId = NULL

\* a limiter key that names the connection
rateKeyOfConn(c) == c

\* `ws-message:${state.ip}`
rateKey(c) == clientState[c].ip

\* lines up to `await checkRateLimit`; the transaction runs in issue order
SendStart(t, c, content, redisUp, now) ==
  /\ FreeSlot(t)
  /\ readyState[c] = "OPEN"
  /\ c \in clients
  /\ LET k  == [IdleTask EXCEPT !.kind = "send", !.conn = c, !.content = content,
                                !.asAdmin = clientState[c].isAdmin]
         ip == rateKey(c)
         r  == checkRateLimit(rl, ip, WsLimit, Window, now)
     IN
     IF Unbound(clientState[c])
       THEN /\ sent' = sendError(readyState, c, "NOT_IN_SESSION")
            /\ UNCHANGED <<rl, tasks>>
     ELSE IF ~WsSendMessageSchema(content)
       THEN /\ sent' = sendError(readyState, c, "VALIDATION_ERROR")
            /\ UNCHANGED <<rl, tasks>>
     ELSE /\ Cardinality(Counted(ip, now)) <= WsLimit   \* cap of the model
          /\ now >= Clock(rl)
          /\ sent' = {}
          /\ IF redisUp
               THEN /\ rl' = r.store
                    /\ tasks' = [tasks EXCEPT ![t] =
                         [k EXCEPT !.pc = "rateLimit", !.allowed = r.allowed]]
               ELSE /\ UNCHANGED rl
                    /\ tasks' = [tasks EXCEPT ![t] =
                         [k EXCEPT !.pc = "rateLimit", !.threw = TRUE]]
  /\ UNCHANGED <<clients, clientState, readyState, sessionClients, sessions,
                 messages, lastMsg>>

\* from `if (!rateResult.allowed)` to `await prisma.chatSession.findUnique`
SendRateChecked(t) ==
  /\ tasks[t].kind = "send"
  /\ Ready(t, "rateLimit")
  /\ IF ~tasks[t].allowed
       THEN /\ tasks' = [tasks EXCEPT ![t] = IdleTask]
            /\ sent' = sendError(readyState, tasks[t].conn, "RATE_LIMITED")
       ELSE /\ tasks' = [tasks EXCEPT ![t].pc = "findSession",
                                      ![t].pending = TRUE,
                                      ![t].allowed = FALSE,
                                      ![t].arg = clientState[tasks[t].conn].sessionId]
            /\ sent' = {}
  /\ UNCHANGED <<clients, clientState, readyState, sessionClients, sessions,
                 messages, rl, lastMsg>>

\* a status check that lets every session through
AlwaysActive(status) == FALSE

\* `!session || session.status !== "ACTIVE"`
NotActive(status) == status # "ACTIVE"

\* from `if (!session || session.status !== "ACTIVE")` to
\* `await prisma.chatMessage.create`
SendSessionChecked(t) ==
  /\ tasks[t].kind = "send"
  /\ Ready(t, "findSession")
  /\ LET st == clientState[tasks[t].conn] IN
     IF NotActive(tasks[t].status)
       THEN /\ tasks' = [tasks EXCEPT ![t] = IdleTask]
            /\ sent' = sendError(readyState, tasks[t].conn, "SESSION_CLOSED")
       ELSE /\ tasks' = [tasks EXCEPT
                 ![t].pc = "createMessage", ![t].pending = TRUE,
                 ![t].status = "NONE",
                 ![t].arg = st.sessionId,
                 ![t].role = IF st.isAdmin THEN "ASSISTANT" ELSE "USER",
                 ![t].text = IF st.isAdmin THEN Marin(tasks[t].content)
                                           ELSE tasks[t].content]
            /\ sent' = {}
  /\ UNCHANGED <<clients, clientState, readyState, sessionClients, sessions,
                 messages, rl, lastMsg>>

\* broadcast MESSAGE_RECEIVED, then `if (!state.isAdmin)` up to the next await
SendPersisted(t) ==
  /\ tasks[t].kind = "send"
  /\ Ready(t, "createMessage")
  /\ LET st == clientState[tasks[t].conn]
         b  == Broadcast(t, "MESSAGE_RECEIVED", tasks[t].msgId)
     IN  /\ sent' = b.out
         /\ lastMsg' = b.last
         /\ tasks' = [tasks EXCEPT ![t].evts = b.evts, ![t].pending = TRUE,
                                   ![t].arg = st.sessionId,
                                   ![t].pc = IF st.isAdmin THEN "updateSession"
                                                           ELSE "findHistory"]
  /\ UNCHANGED <<clients, clientState, readyState, sessionClients, sessions,
                 messages, rl>>

\* broadcast TYPING_START and call getAIResponse(history)
SendHistoryRead(t) ==
  /\ tasks[t].kind = "send"
  /\ Ready(t, "findHistory")
  /\ LET b == Broadcast(t, "TYPING_START", NoMsg) IN
       /\ sent' = b.out
       /\ tasks' = [tasks EXCEPT ![t].evts = b.evts, ![t].pc = "getAIResponse",
                                 ![t].pending = TRUE]
  /\ UNCHANGED <<clients, clientState, readyState, sessionClients, sessions,
                 messages, rl, lastMsg>>

\* getAIResponse returned `content` ("" on any failure): broadcast
\* TYPING_STOP, then `if (aiResult.content)` up to the next await
SendAiReturned(t, content) ==
  /\ tasks[t].kind = "send"
  /\ tasks[t].pc = "getAIResponse"
  /\ LET st == clientState[tasks[t].conn]
         b  == Broadcast(t, "TYPING_STOP", NoMsg)
     IN
       /\ sent' = b.out
       /\ tasks' = [tasks EXCEPT ![t].evts = b.evts, ![t].pending = TRUE,
                                 ![t].arg = st.sessionId,
                                 ![t].hist = <<>>,
                                 ![t].role = "ASSISTANT", ![t].text = content,
                                 ![t].pc = IF content # "" THEN "createAiMessage"
                                                           ELSE "updateSession"]
  /\ UNCHANGED <<clients, clientState, readyState, sessionClients, sessions,
                 messages, rl, lastMsg>>

\* broadcast AI_RESPONSE, then `await prisma.chatSession.update`
SendAiPersisted(t) ==
  /\ tasks[t].kind = "send"
  /\ Ready(t, "createAiMessage")
  /\ LET st == clientState[tasks[t].conn]
         b  == Broadcast(t, "AI_RESPONSE", tasks[t].aiId)
     IN  /\ sent' = b.out
         /\ lastMsg' = b.last
         /\ tasks' = [tasks EXCEPT ![t].evts = b.evts, ![t].pending = TRUE,
                                   ![t].arg = st.sessionId,
                                   ![t].pc = "updateSession"]
  /\ UNCHANGED <<clients, clientState, readyState, sessionClients, sessions,
                 messages, rl>>

\* chatSession.update({ where: { id }, data: { updatedAt } }) and return;
\* a null id makes the await throw into the catch block
SendTouched(t) ==
  /\ tasks[t].kind = "send"
  /\ tasks[t].pc = "updateSession"
  /\ tasks[t].pending
  /\ tasks' = [tasks EXCEPT ![t] = IdleTask]
  /\ sent' = IF tasks[t].arg = NULL
               THEN sendError(readyState, tasks[t].conn, "INVALID_MESSAGE")
               ELSE {}
  /\ UNCHANGED <<clients, clientState, readyState, sessionClients, sessions,
                 messages, rl, lastMsg>>

\* ---- chat HTTP routes that write to the store -----------------------------
\* POST /chat/sessions: the session row (status ACTIVE) and its welcome
\* message; the session id is not known to any client before both exist
CreateSession(s) ==
  /\ sessions[s] = "NONE"
  /\ sessions' = [sessions EXCEPT ![s] = "ACTIVE"]
  /\ messages' = create(messages, s, "ASSISTANT", "Hi there!")
  /\ sent' = {}
  /\ UNCHANGED <<clients, clientState, readyState, sessionClients, rl, tasks,
                 lastMsg>>

\* a route that reopens a session that is closed
ToggleSession(s) ==
  /\ sessions[s] # "NONE"
  /\ sessions' = [sessions EXCEPT
                    ![s] = IF sessions[s] = "CLOSED" THEN "ACTIVE" ELSE "CLOSED"]
  /\ sent' = {}
  /\ UNCHANGED <<clients, clientState, readyState, sessionClients, messages,
                 rl, tasks, lastMsg>>

\* POST /chat/sessions/:sessionId/close with a valid admin key
CloseSession(s) ==
  /\ sessions[s] # "NONE"
  /\ sessions' = [sessions EXCEPT ![s] = "CLOSED"]
  /\ sent' = {}
  /\ UNCHANGED <<clients, clientState, readyState, sessionClients, messages,
                 rl, tasks, lastMsg>>

\* POST /chat/sessions/:sessionId/reply with a valid admin key
AdminReply(s, content) ==
  /\ sessions[s] # "NONE"
  /\ WsSendMessageSchema(content)
  /\ Cardinality({i \in 1..Len(messages[s]) :
                    messages[s][i].content = Marin(content)}) < MaxReplies
  /\ messages' = create(messages, s, "ASSISTANT", Marin(content))
  /\ sent' = {}
  /\ UNCHANGED <<clients, clientState, readyState, sessionClients, sessions,
                 rl, tasks, lastMsg>>

\* `visitorId = req.ip` of POST /chat/sessions: the client identity session s
\* was started from
visitorIdOf(s) == ((s - 1) % NumIdentities) + 1

\* `req.headers["x-admin-api-key"] !== undefined`
headerIsAdmin(header) == header # NoKey

\* GET /chat/sessions/:sessionId/messages, requested from identity `ip` with
\* `header` as x-admin-api-key (NoKey: no such header); the response goes to
\* the requester
GetMessages(s, ip, header) ==
  /\ sent' =
       IF sessions[s] = "NONE"
         THEN {Envelope(ip, "HTTP", "SESSION_NOT_FOUND", s, NoMsg, <<>>)}
       ELSE IF ~headerIsAdmin(header) /\ visitorIdOf(s) # ip
         THEN {Envelope(ip, "HTTP", "FORBIDDEN", s, NoMsg, <<>>)}
       ELSE {Envelope(ip, "HTTP", "OK", s, NoMsg, findMany(messages, s))}
  /\ UNCHANGED <<clients, clientState, readyState, sessionClients, sessions,
                 messages, rl, tasks, lastMsg>>

TypingTypes == {"TYPING_START", "TYPING_STOP"}

\* ---- specifications -------------------------------------------------------
InFlight(kind) == Cardinality({t \in Tasks : tasks[t].kind = kind})

\* the WebSocket core, from server start
Next ==
  \/ \E c \in Conns, ip \in Ips : Connect(c, ip)
  \/ \E c \in Conns : TransportClosing(c)
  \/ \E c \in Conns : OnClose(c)
  \/ \E c \in Conns : LeaveSession(c)
  \/ \E c \in Conns, type \in TypingTypes : Typing(c, type)
  \/ \E t \in Tasks, c \in Conns, s \in Sessions \cup {BadId},
        a \in BOOLEAN, key \in AdminKeys :
        InFlight("join") < MaxJoins /\ JoinStart(t, c, s, a, key)
  \/ \E t \in Tasks : JoinFound(t)
  \/ \E t \in Tasks : JoinSend(t)
  \/ \E t \in Tasks, c \in Conns, content \in Contents, up \in BOOLEAN :
        InFlight("send") < MaxSends /\ SendStart(t, c, content, up, Clock(rl))
  \/ \E t \in Tasks : SendRateChecked(t)
  \/ \E t \in Tasks : SendSessionChecked(t)
  \/ \E t \in Tasks : SendPersisted(t)
  \/ \E t \in Tasks : SendHistoryRead(t)
  \/ \E t \in Tasks, content \in AiTexts : SendAiReturned(t, content)
  \/ \E t \in Tasks : SendAiPersisted(t)
  \/ \E t \in Tasks : SendTouched(t)
  \/ \E t \in Tasks : DbExec(t)
  \/ \E t \in Tasks : HandlerCatch(t)
  \/ \E s \in Sessions : CreateSession(s)
  \/ \E s \in Sessions : CloseSession(s)

Spec == Init /\ [][Next]_vars

\* the connection registry and the session store: connections, Join and
\* Leave, and the chat HTTP routes
NextJoin ==
  \/ \E c \in Conns, ip \in Ips : Connect(c, ip)
  \/ \E c \in Conns : TransportClosing(c)
  \/ \E c \in Conns : OnClose(c)
  \/ \E c \in Conns : LeaveSession(c)
  \/ \E t \in Tasks, c \in Conns, s \in Sessions \cup {BadId},
        a \in BOOLEAN, key \in AdminKeys :
        InFlight("join") < MaxJoins /\ JoinStart(t, c, s, a, key)
  \/ \E t \in Tasks : JoinFound(t)
  \/ \E t \in Tasks : JoinSend(t)
  \/ \E t \in Tasks : DbExec(t)
  \/ \E s \in Sessions : CreateSession(s)
  \/ \E s \in Sessions : CloseSession(s)
  \/ \E s \in Sessions, content \in Contents : AdminReply(s, content)

SpecJoin == Init /\ [][NextJoin]_vars

\* concurrent SEND_MESSAGE handlers of one connection that has joined
\* session 1
InitRace ==
  /\ clients = {1}
  /\ \E a \in BOOLEAN :
       clientState = [c \in Conns |->
         IF c = 1 THEN [sessionId |-> 1, isAdmin |-> a, ip |-> 1]
                  ELSE [sessionId |-> NULL, isAdmin |-> FALSE, ip |-> 1]]
  /\ readyState = [c \in Conns |-> IF c = 1 THEN "OPEN" ELSE "NONE"]
  /\ sessionClients = [s \in {1} |-> {1}]
  /\ sessions = [s \in Sessions |-> IF s = 1 THEN "ACTIVE" ELSE "NONE"]
  /\ messages = [s \in Sessions |->
       IF s = 1 THEN <<Row("ASSISTANT", "Hi there!")>> ELSE <<>>]
  /\ rl = [i \in Ips |-> Attempts(WsLimit - RaceRoom, 0)]
  /\ tasks = [t \in Tasks |-> IdleTask]
  /\ sent = {}
  /\ lastMsg = [c \in Conns |-> [s \in Sessions |-> 0]]

NextRace ==
  \/ \E t \in Tasks, c \in Conns, content \in Contents, up \in BOOLEAN :
        InFlight("send") < MaxRacing /\ SendStart(t, c, content, up, Clock(rl))
  \/ \E t \in Tasks : SendRateChecked(t)
  \/ \E t \in Tasks : SendSessionChecked(t)
  \/ \E t \in Tasks : SendPersisted(t)
  \/ \E t \in Tasks : SendHistoryRead(t)
  \/ \E t \in Tasks, content \in AiTexts : SendAiReturned(t, content)
  \/ \E t \in Tasks : SendAiPersisted(t)
  \/ \E t \in Tasks : SendTouched(t)
  \/ \E t \in Tasks : DbExec(t)
  \/ \E t \in Tasks : HandlerCatch(t)

SpecRace == InitRace /\ [][NextRace]_vars

\* the rate limiter under a moving clock: SEND_MESSAGE handlers of one
\* connection whose session has been closed, so that no handler gets past
\* the status check
InitLimiter ==
  /\ clients = {1}
  /\ \E a \in BOOLEAN :
       clientState = [c \in Conns |->
         IF c = 1 THEN [sessionId |-> 1, isAdmin |-> a, ip |-> 1]
                  ELSE [sessionId |-> NULL, isAdmin |-> FALSE, ip |-> 1]]
  /\ readyState = [c \in Conns |-> IF c = 1 THEN "OPEN" ELSE "NONE"]
  /\ sessionClients = [s \in {1} |-> {1}]
  /\ sessions = [s \in Sessions |-> IF s = 1 THEN "CLOSED" ELSE "NONE"]
  /\ messages = [s \in Sessions |->
       IF s = 1 THEN <<Row("ASSISTANT", "Hi there!")>> ELSE <<>>]
  /\ rl = [i \in Ips |-> Attempts(WsLimit - RaceRoom, 0)]
  /\ tasks = [t \in Tasks |-> IdleTask]
  /\ sent = {}
  /\ lastMsg = [c \in Conns |-> [s \in Sessions |-> 0]]

NextLimiter ==
  \/ \E c \in Conns : LeaveSession(c)
  \/ \E t \in Tasks, c \in Conns, content \in Contents, up \in BOOLEAN,
        now \in Times :
        /\ InFlight("send") < MaxRacing
        /\ Len(rl[clientState[c].ip]) <= WsLimit
        /\ SendStart(t, c, content, up, now)
  \/ \E t \in Tasks : SendRateChecked(t)
  \/ \E t \in Tasks : SendSessionChecked(t)
  \/ \E t \in Tasks : DbExec(t)
  \/ \E t \in Tasks : HandlerCatch(t)

SpecLimiter == InitLimiter /\ [][NextLimiter]_vars

\* one SEND_MESSAGE at a time in a session that already holds a conversation
InitHistory ==
  /\ clients = {1}
  /\ clientState = [c \in Conns |-> [sessionId |-> IF c = 1 THEN 1 ELSE NULL,
                                     isAdmin |-> FALSE, ip |-> 1]]
  /\ readyState = [c \in Conns |-> IF c = 1 THEN "OPEN" ELSE "NONE"]
  /\ sessionClients = [s \in {1} |-> {1}]
  /\ sessions = [s \in Sessions |-> IF s = 1 THEN "ACTIVE" ELSE "NONE"]
  /\ \E n \in 1..MaxBacklog :
       messages = [s \in Sessions |->
         IF s = 1
           THEN [i \in 1..n |-> IF i = 1 THEN Row("ASSISTANT", "Hi there!")
                                         ELSE Row("USER", "hello")]
           ELSE <<>>]
  /\ rl = [i \in Ips |-> Attempts(WsLimit - Headroom, 0)]
  /\ tasks = [t \in Tasks |-> IdleTask]
  /\ sent = {}
  /\ lastMsg = [c \in Conns |-> [s \in Sessions |-> 0]]

NextHistory ==
  \/ \E t \in Tasks, c \in Conns, content \in Contents, up \in BOOLEAN :
        InFlight("send") < MaxSends /\ SendStart(t, c, content, up, Clock(rl))
  \/ \E t \in Tasks : SendRateChecked(t)
  \/ \E t \in Tasks : SendSessionChecked(t)
  \/ \E t \in Tasks : SendPersisted(t)
  \/ \E t \in Tasks : SendHistoryRead(t)
  \/ \E t \in Tasks, content \in AiTexts : SendAiReturned(t, content)
  \/ \E t \in Tasks : SendAiPersisted(t)
  \/ \E t \in Tasks : SendTouched(t)
  \/ \E t \in Tasks : DbExec(t)
  \/ \E t \in Tasks : HandlerCatch(t)

SpecHistory == InitHistory /\ [][NextHistory]_vars

\* the steps the server takes by itself once a message is in: the store
\* answers and the event loop runs the continuation.  The arrival of a
\* message is the client's step and the settling of the `fetch` of
\* getAIResponse is the remote service's: no timer or AbortSignal in
\* getAIResponse forces it
ServerStep ==
  \/ \E t \in Tasks : SendRateChecked(t)
  \/ \E t \in Tasks : SendSessionChecked(t)
  \/ \E t \in Tasks : SendPersisted(t)
  \/ \E t \in Tasks : SendHistoryRead(t)
  \/ \E t \in Tasks : SendAiPersisted(t)
  \/ \E t \in Tasks : SendTouched(t)
  \/ \E t \in Tasks : DbExec(t)
  \/ \E t \in Tasks : HandlerCatch(t)

\* the generator's answer, of any kind, arrives
GeneratorSettles == \E t \in Tasks, content \in AiTexts : SendAiReturned(t, content)

SpecStall == InitHistory /\ [][NextHistory]_vars /\ WF_vars(ServerStep)

\* the same with a generator that always answers in the end
SpecSettling == SpecStall /\ WF_vars(GeneratorSettles)

\* several connections joining, typing in, leaving and closing on sessions
\* that exist
InitRoom ==
  /\ clients = {}
  /\ clientState = [c \in Peers |-> [sessionId |-> NULL, isAdmin |-> FALSE, ip |-> 1]]
  /\ readyState = [c \in Peers |-> "NONE"]
  /\ sessionClients = << >>
  /\ sessions = [s \in Sessions |-> "ACTIVE"]
  /\ messages = [s \in Sessions |-> <<Row("ASSISTANT", "Hi there!")>>]
  /\ rl = [i \in Ips |-> Attempts(WsLimit - Headroom, 0)]
  /\ tasks = [t \in Tasks |-> IdleTask]
  /\ sent = {}
  /\ lastMsg = [c \in Peers |-> [s \in Sessions |-> 0]]

NextRoom ==
  \/ \E c \in Peers, ip \in Ips : Connect(c, ip)
  \/ \E c \in Peers : TransportClosing(c)
  \/ \E c \in Peers : OnClose(c)
  \/ \E c \in Peers : LeaveSession(c)
  \/ \E c \in Peers, type \in TypingTypes : Typing(c, type)
  \/ \E t \in Tasks, c \in Peers, s \in Sessions, a \in BOOLEAN,
        key \in AdminKeys :
        InFlight("join") < MaxJoins /\ JoinStart(t, c, s, a, key)
  \/ \E t \in Tasks : JoinFound(t)
  \/ \E t \in Tasks : JoinSend(t)
  \/ \E t \in Tasks : DbExec(t)

SpecRoom == InitRoom /\ [][NextRoom]_vars

\* failures: handlers of several connections, one at a time, on a store that
\* may reject any call and a limiter that may be unreachable; inbound data
\* that is no envelope or has no known type
InitFault ==
  /\ clients = {}
  /\ clientState = [c \in Peers |-> [sessionId |-> NULL, isAdmin |-> FALSE, ip |-> 1]]
  /\ readyState = [c \in Peers |-> "NONE"]
  /\ sessionClients = << >>
  /\ \E st \in {"ACTIVE", "CLOSED"} :
       sessions = [s \in Sessions |-> IF s = 1 THEN st ELSE "NONE"]
  /\ messages = [s \in Sessions |->
       IF s = 1 THEN <<Row("ASSISTANT", "Hi there!")>> ELSE <<>>]
  /\ rl = [i \in Ips |-> Attempts(WsLimit - Headroom, 0)]
  /\ tasks = [t \in Tasks |-> IdleTask]
  /\ sent = {}
  /\ lastMsg = [c \in Peers |-> [s \in Sessions |-> 0]]

NextFault ==
  \/ \E c \in Peers, ip \in Ips : Connect(c, ip)
  \/ \E c \in Peers : TransportClosing(c)
  \/ \E c \in Peers : OnClose(c)
  \/ \E c \in Peers : LeaveSession(c)
  \/ \E c \in Peers : UnknownType(c)
  \/ \E c \in Peers : Malformed(c)
  \/ \E t \in Tasks, c \in Peers, s \in Sessions \cup {BadId},
        a \in BOOLEAN, key \in AdminKeys :
        InFlight("join") + InFlight("send") < MaxFaulty
          /\ JoinStart(t, c, s, a, key)
  \/ \E t \in Tasks : JoinFound(t)
  \/ \E t \in Tasks : JoinSend(t)
  \/ \E t \in Tasks, c \in Peers, content \in Contents, up \in BOOLEAN :
        InFlight("join") + InFlight("send") < MaxFaulty
          /\ SendStart(t, c, content, up, Clock(rl))
  \/ \E t \in Tasks : SendRateChecked(t)
  \/ \E t \in Tasks : SendSessionChecked(t)
  \/ \E t \in Tasks : SendPersisted(t)
  \/ \E t \in Tasks : SendHistoryRead(t)
  \/ \E t \in Tasks, content \in AiTexts : SendAiReturned(t, content)
  \/ \E t \in Tasks : SendAiPersisted(t)
  \/ \E t \in Tasks : SendTouched(t)
  \/ \E t \in Tasks : DbExec(t)
  \/ \E t \in Tasks : DbFail(t)
  \/ \E t \in Tasks : HandlerCatch(t)

SpecFault == InitFault /\ [][NextFault]_vars

\* the instant at which a SEND_MESSAGE handler of connection 1, bound to
\* session 1, has issued its generator call: its message is persisted and
\* broadcast, the history is read and TYPING_START is out; the other
\* connections are open and not yet bound
InitAwait ==
  /\ clients = Peers
  /\ clientState = [c \in Peers |-> [sessionId |-> IF c = 1 THEN 1 ELSE NULL,
                                     isAdmin |-> FALSE, ip |-> 1]]
  /\ readyState = [c \in Peers |-> "OPEN"]
  /\ sessionClients = [s \in {1} |-> {1}]
  /\ sessions = [s \in Sessions |-> "ACTIVE"]
  /\ messages = [s \in Sessions |->
       IF s = 1 THEN <<Row("ASSISTANT", "Hi there!"), Row("USER", "hello")>>
                ELSE <<Row("ASSISTANT", "Hi there!")>>]
  /\ rl = [i \in Ips |-> Attempts(WsLimit - RaceRoom + 1, 0)]
  /\ tasks = [t \in Tasks |->
       IF t = 1
         THEN [IdleTask EXCEPT
                 !.kind = "send", !.conn = 1, !.content = "hello",
                 !.pc = "getAIResponse", !.pending = TRUE, !.arg = 1,
                 !.role = "USER", !.text = "hello", !.msgId = MsgId(1, 2),
                 !.hist = Take(findMany(messages, 1), HistoryTake),
                 !.evts = <<Evt("MESSAGE_RECEIVED", 1), Evt("TYPING_START", 1)>>]
         ELSE IdleTask]
  /\ sent = broadcastToSession(sessionClients, readyState, 1, "TYPING_START",
                               NoMsg, NULL)
  /\ lastMsg = [c \in Peers |-> [s \in Sessions |->
                                   IF c = 1 /\ s = 1 THEN 2 ELSE 0]]

\* the generator call of that handler is outstanding
Outstanding == tasks[1].pc = "getAIResponse" /\ tasks[1].msgId = MsgId(1, 2)

\* the connections other than the sender
Others == Peers \ {1}

\* what the other connections do, and what the server does for them, until
\* the generator call returns
NextAwait ==
  /\ Outstanding
  /\ \/ \E c \in Others : OnClose(c)
     \/ \E c \in Others : LeaveSession(c)
     \/ \E c \in Others, type \in TypingTypes : Typing(c, type)
     \/ \E t \in Tasks, c \in Others, s \in Sessions :
           InFlight("join") + InFlight("send") < MaxRacing
             /\ JoinStart(t, c, s, FALSE, NoKey)
     \/ \E t \in Tasks : JoinFound(t)
     \/ \E t \in Tasks : JoinSend(t)
     \/ \E t \in Tasks, c \in Others, content \in Contents :
           InFlight("join") + InFlight("send") < MaxRacing
             /\ SendStart(t, c, content, TRUE, Clock(rl))
     \/ \E t \in Tasks : SendRateChecked(t)
     \/ \E t \in Tasks : SendSessionChecked(t)
     \/ \E t \in Tasks : SendPersisted(t)
     \/ \E t \in Tasks : SendHistoryRead(t)
     \/ \E t \in Tasks, content \in AiTexts : SendAiReturned(t, content)
     \/ \E t \in Tasks : SendAiPersisted(t)
     \/ \E t \in Tasks : SendTouched(t)
     \/ \E t \in Tasks : DbExec(t)
     \/ \E t \in Tasks : HandlerCatch(t)

SpecAwait == InitAwait /\ [][NextAwait]_vars

\* the sliding window: SEND_MESSAGE handlers, one at a time, of a connection
\* whose session has been closed, under a moving clock
NextWindow ==
  \/ \E t \in Tasks, c \in Conns, content \in Contents, up \in BOOLEAN,
        now \in Times :
        InFlight("send") < MaxSends /\ SendStart(t, c, content, up, now)
  \/ \E t \in Tasks : SendRateChecked(t)
  \/ \E t \in Tasks : SendSessionChecked(t)
  \/ \E t \in Tasks : DbExec(t)
  \/ \E t \in Tasks : HandlerCatch(t)

SpecWindow == InitLimiter /\ [][NextWindow]_vars

\* connections of one or of several client identities, all open and bound to
\* a session that has been closed, sending one message at a time
InitShared ==
  /\ clients = Peers
  /\ \E ipOf \in [Peers -> Identities] :
       clientState = [c \in Peers |->
                        [sessionId |-> 1, isAdmin |-> FALSE, ip |-> ipOf[c]]]
  /\ readyState = [c \in Peers |-> "OPEN"]
  /\ sessionClients = [s \in {1} |-> Peers]
  /\ sessions = [s \in Sessions |-> IF s = 1 THEN "CLOSED" ELSE "NONE"]
  /\ messages = [s \in Sessions |->
       IF s = 1 THEN <<Row("ASSISTANT", "Hi there!")>> ELSE <<>>]
  /\ rl = [i \in Identities |-> Attempts(WsLimit - Headroom, 0)]
  /\ tasks = [t \in Tasks |-> IdleTask]
  /\ sent = {}
  /\ lastMsg = [c \in Peers |-> [s \in Sessions |-> 0]]

NextShared ==
  \/ \E t \in Tasks, c \in Peers, content \in Contents, up \in BOOLEAN :
        InFlight("send") < MaxSends /\ SendStart(t, c, content, up, Clock(rl))
  \/ \E t \in Tasks : SendRateChecked(t)
  \/ \E t \in Tasks : SendSessionChecked(t)
  \/ \E t \in Tasks : DbExec(t)
  \/ \E t \in Tasks : HandlerCatch(t)

SpecShared == InitShared /\ [][NextShared]_vars

\* broadcasts: connections registered earlier, each bound to the session or
\* to none, each with a transport that is open or closing; they type, leave,
\* lose their transport and send messages, one at a time
InitBroadcast ==
  /\ clients = Members
  /\ \E bound \in SUBSET Members, open \in SUBSET Members :
       /\ clientState = [c \in Members |->
            [sessionId |-> IF c \in bound THEN 1 ELSE NULL,
             isAdmin |-> FALSE, ip |-> 1]]
       /\ readyState = [c \in Members |-> IF c \in open THEN "OPEN" ELSE "CLOSING"]
       /\ sessionClients = [s \in {x \in {1} : bound # {}} |-> bound]
  /\ sessions = [s \in Sessions |-> IF s = 1 THEN "ACTIVE" ELSE "NONE"]
  /\ messages = [s \in Sessions |->
       IF s = 1 THEN <<Row("ASSISTANT", "Hi there!")>> ELSE <<>>]
  /\ rl = [i \in Ips |-> Attempts(WsLimit - Headroom, 0)]
  /\ tasks = [t \in Tasks |-> IdleTask]
  /\ sent = {}
  /\ lastMsg = [c \in Members |-> [s \in Sessions |-> 0]]

NextBroadcast ==
  \/ \E c \in Members : TransportClosing(c)
  \/ \E c \in Members : LeaveSession(c)
  \/ \E c \in Members, type \in TypingTypes : Typing(c, type)
  \/ \E t \in Tasks, c \in Members, content \in Contents :
        InFlight("send") < MaxSends /\ SendStart(t, c, content, TRUE, Clock(rl))
  \/ \E t \in Tasks : SendRateChecked(t)
  \/ \E t \in Tasks : SendSessionChecked(t)
  \/ \E t \in Tasks : SendPersisted(t)
  \/ \E t \in Tasks : SendHistoryRead(t)
  \/ \E t \in Tasks, content \in AiTexts : SendAiReturned(t, content)
  \/ \E t \in Tasks : SendAiPersisted(t)
  \/ \E t \in Tasks : SendTouched(t)
  \/ \E t \in Tasks : DbExec(t)

SpecBroadcast == InitBroadcast /\ [][NextBroadcast]_vars

\* the chat HTTP routes, with no WebSocket connection
NextHttp ==
  \/ \E s \in Sessions : CreateSession(s)
  \/ \E s \in Sessions : CloseSession(s)
  \/ \E s \in Sessions, content \in Contents : AdminReply(s, content)
  \/ \E s \in Sessions, ip \in Identities, header \in AdminKeys :
        GetMessages(s, ip, header)

SpecHttp == Init /\ [][NextHttp]_vars

\* ==== properties ============================================================
\* the session a connection is bound to: ClientState.sessionId of its entry
\* in `clients`, none once the entry is deleted
BoundSession(c) == IF c \in clients THEN clientState[c].sessionId ELSE NULL

Member(c, s) == s \in DOMAIN sessionClients /\ c \in sessionClients[s]

HandlersOf(c) == {t \in Tasks : Busy(t) /\ tasks[t].conn = c}

EvtIdx(t, type) ==
  {i \in 1..Len(tasks[t].evts) : tasks[t].evts[i].type = type}

\* handler t has got the generator's answer and broadcast what follows it
AfterGenerator(t) ==
  /\ tasks[t].kind = "send"
  /\ tasks[t].pc \in {"createAiMessage", "updateSession"}
  /\ EvtIdx(t, "TYPING_START") # {}

\* C1: every connection is in at most one membership set, and it is in the
\* set of session s exactly when its bound session id is s
C1_MembershipMatchesBinding ==
  \A c \in Conns :
    /\ Cardinality({s \in Sessions : Member(c, s)}) <= 1
    /\ \A s \in Sessions : Member(c, s) <=> BoundSession(c) = s

\* C2: once the close event of a connection has been handled and none of its
\* handlers is in flight, the connection is in no membership set
C2_ClosedConnectionUnregistered ==
  \A c \in Conns :
    (readyState[c] = "CLOSED" /\ HandlersOf(c) = {})
      => \A s \in Sessions : ~Member(c, s)

\* C3: no step appends a message to a session whose status is CLOSED
C3_NoAppendAfterClosed ==
  [][\A s \in Sessions : sessions[s] = "CLOSED" => messages'[s] = messages[s]]_vars

\* C4: once the generator call of a handler has returned, every TYPING_START
\* the handler broadcast to a session is followed by a TYPING_STOP it
\* broadcast to the same session
C4_TypingStopFollowsStart ==
  \A t \in Tasks :
    AfterGenerator(t) =>
      \A i \in EvtIdx(t, "TYPING_START") :
        tasks[t].evts[i].sid # NULL =>
          \E j \in EvtIdx(t, "TYPING_STOP") :
            j > i /\ tasks[t].evts[j].sid = tasks[t].evts[i].sid

\* C5: a handler that reached the generator call has broadcast to a session
\* exactly one TYPING_START and, once the call returned, exactly one
\* TYPING_STOP after it and before any AI_RESPONSE
C5_OneStartOneStop ==
  \A t \in Tasks :
    LET ToSession(type) == {i \in EvtIdx(t, type) : tasks[t].evts[i].sid # NULL}
    IN
    /\ (tasks[t].kind = "send" /\ tasks[t].pc = "getAIResponse")
         => Cardinality(ToSession("TYPING_START")) = 1
    /\ AfterGenerator(t) =>
         /\ Cardinality(ToSession("TYPING_START")) = 1
         /\ Cardinality(ToSession("TYPING_STOP")) = 1
         /\ \A i \in ToSession("TYPING_START"), j \in ToSession("TYPING_STOP") : i < j
         /\ \A j \in ToSession("TYPING_STOP"), k \in EvtIdx(t, "AI_RESPONSE") : j < k

\* C6: a connection is sent the messages of a session in the order in which
\* they were persisted
C6_DeliveryInPersistedOrder ==
  [][\A c \in Conns, s \in Sessions :
       lastMsg'[c][s] # lastMsg[c][s] => lastMsg'[c][s] > lastMsg[c][s]]_vars

\* the envelopes of `type` for message `id` in a set of envelopes
Carrying(out, type, id) == {e \in out : e.type = type /\ e.id = id}

\* C7: the step of a SendMessage handler that follows the persistence of its
\* message delivers MESSAGE_RECEIVED for it to exactly the open members of
\* the session the message was persisted in
C7_PersistedThenBroadcast ==
  [][\A t \in Tasks :
       (tasks[t].kind = "send" /\ Ready(t, "createMessage")
          /\ tasks'[t].pc # "createMessage")
       => {e.to : e \in Carrying(sent', "MESSAGE_RECEIVED", tasks[t].msgId)}
            = Recipients(sessionClients, readyState, tasks[t].msgId[1], NULL)]_vars

\* C8: every broadcast of a SendMessage handler is addressed to the session
\* its user message was persisted in, and so is its assistant reply
C8_SessionIsolation ==
  \A t \in Tasks :
    (tasks[t].kind = "send" /\ tasks[t].msgId # NoMsg) =>
      /\ \A i \in 1..Len(tasks[t].evts) :
           tasks[t].evts[i].sid \in {NULL, tasks[t].msgId[1]}
      /\ tasks[t].aiId # NoMsg => tasks[t].aiId[1] = tasks[t].msgId[1]

\* the ERROR envelope a connection gets while its transport is open
ErrorTo(c, code) ==
  IF readyState[c] = "OPEN"
    THEN {Envelope(c, "ERROR", code, NULL, NoMsg, <<>>)}
    ELSE {}

\* C9 as stated: a Join naming a session that does not exist leaves the admin
\* flag and the rest of the connection state as they were and is never
\* answered with another error than SESSION_NOT_FOUND, whatever
\* isAdmin/adminKey it carries
C9_AsStated ==
  [][\A t \in Tasks, c \in Conns, s \in Sessions, a \in BOOLEAN, key \in AdminKeys :
       (JoinStart(t, c, s, a, key) /\ sessions[s] = "NONE")
         => /\ clientState' = clientState
            /\ sessionClients' = sessionClients
            /\ \A e \in sent' : e.code = "SESSION_NOT_FOUND"]_vars

\* C9: a Join naming a well-formed id that passes the credential check changes
\* nothing but the admin flag, which it sets exactly when it carries isAdmin
\* with the configured secret; its lookup reports the session as missing
\* exactly when the store has none under that id; and a lookup that found
\* nothing ends the handler with SESSION_NOT_FOUND to the caller (while its
\* transport is open) and leaves the bound session id, the admin flag and
\* every membership set unchanged
C9_JoinMissingSession ==
  [][
      /\ \A t \in Tasks, c \in Conns, s \in Sessions, a \in BOOLEAN, key \in AdminKeys :
          (JoinStart(t, c, s, a, key) /\ (a => key = ADMIN_API_KEY))
            => /\ sessionClients' = sessionClients
               /\ clientState'[c].sessionId = clientState[c].sessionId
               /\ clientState'[c].isAdmin = (clientState[c].isAdmin \/ a)
               /\ sent' = {}
               /\ tasks'[t].kind = "join" /\ tasks'[t].arg = s
      /\ \A t \in Tasks :
          (tasks[t].kind = "join" /\ tasks[t].pc = "findSession"
             /\ tasks[t].pending /\ ~tasks'[t].pending)
            => tasks'[t].status = sessions[tasks[t].arg]
      /\ \A t \in Tasks :
          (tasks[t].kind = "join" /\ Ready(t, "findSession")
             /\ tasks[t].status = "NONE" /\ tasks'[t] # tasks[t])
            => /\ sent' = ErrorTo(tasks[t].conn, "SESSION_NOT_FOUND")
               /\ clientState' = clientState
               /\ sessionClients' = sessionClients
               /\ tasks'[t] = IdleTask
    ]_vars

\* a bound admin connection has just been told that the session it asked to
\* join does not exist
C9_Witness ==
  \E e \in sent :
    /\ e.code = "SESSION_NOT_FOUND"
    /\ clientState[e.to].sessionId # NULL
    /\ clientState[e.to].isAdmin

Arrival(t) ==
  /\ tasks[t].pc = "idle"
  /\ tasks' = tasks \/ tasks'[t].pc = "rateLimit"

\* C11: a SEND_MESSAGE from a connection that is not bound to a session is
\* answered with NOT_IN_SESSION to that connection and nothing else: no
\* message is persisted, no rate-limit attempt is recorded, no handler is
\* left in flight and nothing is delivered to anyone else
C11_UnboundSend ==
  [][\A t \in Tasks, c \in Conns, content \in Contents, up \in BOOLEAN,
        now \in Times :
       (clientState[c].sessionId = NULL /\ Arrival(t)
          /\ SendStart(t, c, content, up, now))
         => /\ sent' = {Envelope(c, "ERROR", "NOT_IN_SESSION", NULL, NoMsg, <<>>)}
            /\ messages' = messages
            /\ rl' = rl
            /\ tasks' = tasks
            /\ lastMsg' = lastMsg]_vars

\* an unbound connection has just been told that it is in no session
C11_Witness ==
  \E e \in sent :
    e.code = "NOT_IN_SESSION" /\ clientState[e.to].sessionId = NULL

\* C12: a valid SEND_MESSAGE of a bound connection whose limiter answers is
\* reported allowed exactly when fewer than 30 attempts of its client
\* identity lie in the 60 seconds before it; a handler reported not allowed
\* ends with RATE_LIMITED to its connection, persists and delivers nothing
\* and is not continued, and a handler reported allowed goes on to the
\* session lookup
C12_RateLimited ==
  [][
      /\ \A t \in Tasks, c \in Conns, content \in Contents, now \in Times :
          (tasks'[t].pc = "rateLimit" /\ Arrival(t)
             /\ SendStart(t, c, content, TRUE, now))
            => (tasks'[t].allowed
                  <=> Cardinality(Counted(clientState[c].ip, now)) < WsLimit)
      /\ \A t \in Tasks :
          (tasks[t].kind = "send" /\ Ready(t, "rateLimit") /\ tasks'[t] # tasks[t])
            => IF tasks[t].allowed
                 THEN tasks'[t].pc = "findSession" /\ sent' = {}
                 ELSE /\ sent' = ErrorTo(tasks[t].conn, "RATE_LIMITED")
                      /\ tasks'[t] = IdleTask
                      /\ messages' = messages
                      /\ lastMsg' = lastMsg
    ]_vars

\* the 31st attempt of the window has just been refused
C12_Witness ==
  \E e \in sent :
    /\ e.code = "RATE_LIMITED"
    /\ Cardinality(Counted(clientState[e.to].ip, Clock(rl))) > WsLimit

\* C13: every check whose transaction ran is recorded in the store together
\* with the answer it reported, whatever other checks are in flight, and
\* among the recorded attempts of one key no more than 30 that lie within
\* 60 seconds of each other were reported allowed
C13_AtomicCheckAndRecord ==
  [][
      /\ \A t \in Tasks, c \in Conns, content \in Contents, now \in Times :
          (tasks'[t].pc = "rateLimit" /\ Arrival(t)
             /\ SendStart(t, c, content, TRUE, now))
            => LET ip == clientState[c].ip IN
               /\ Len(rl'[ip]) = Cardinality(Counted(ip, now)) + 1
               /\ rl'[ip][Len(rl'[ip])] = Attempt(now, tasks'[t].allowed)
      /\ \A ip \in Ips : \A j \in 1..Len(rl'[ip]) :
          rl'[ip] # rl[ip] =>
          Cardinality({i \in 1..j : /\ rl'[ip][i].ok
                                    /\ rl'[ip][i].at > rl'[ip][j].at - Window})
            <= WsLimit
    ]_vars

\* two checks of one key are in flight, one reported allowed and one not
C13_Witness ==
  \E t, u \in Tasks :
    /\ tasks[t].pc = "rateLimit" /\ tasks[u].pc = "rateLimit"
    /\ ~tasks[t].threw /\ ~tasks[u].threw
    /\ tasks[t].allowed /\ ~tasks[u].allowed

\* C14: a SEND_MESSAGE whose rate-limit check raised an error is continued as
\* if it had been allowed, and no ERROR envelope is sent
C14_FailOpen ==
  [][\A t \in Tasks :
       (tasks[t].kind = "send" /\ tasks[t].pc = "rateLimit" /\ tasks[t].threw
          /\ tasks'[t] # tasks[t])
         => /\ tasks'[t].pc = "findSession"
            /\ \A e \in sent' : e.type # "ERROR"]_vars

\* C15: the re-fetch of a SEND_MESSAGE handler reports the status the store
\* holds for the session it names, and a handler whose re-fetch reported
\* CLOSED ends with SESSION_CLOSED to its connection (while the transport is
\* open), whether the sender is an admin or not, persists and delivers
\* nothing and is not continued
C15_SessionClosed ==
  [][
      /\ \A t \in Tasks :
          (tasks[t].kind = "send" /\ tasks[t].pc = "findSession"
             /\ tasks[t].pending /\ ~tasks'[t].pending /\ ~tasks'[t].threw)
            => tasks'[t].status = sessions[tasks[t].arg]
      /\ \A t \in Tasks :
          (tasks[t].kind = "send" /\ Ready(t, "findSession")
             /\ tasks[t].status = "CLOSED" /\ tasks'[t] # tasks[t])
            => /\ sent' = ErrorTo(tasks[t].conn, "SESSION_CLOSED")
               /\ tasks'[t] = IdleTask
               /\ messages' = messages
               /\ lastMsg' = lastMsg
    ]_vars

\* an admin sender has just been told that its session is closed
C15_Witness ==
  \E e \in sent : e.code = "SESSION_CLOSED" /\ clientState[e.to].isAdmin

\* the store call handler t is waiting for is executed in this step
Executed(t, pc) ==
  /\ tasks[t].kind = "send"
  /\ tasks[t].pc = pc
  /\ tasks[t].pending /\ ~tasks'[t].pending /\ ~tasks'[t].threw

GeneratorPcs == {"findHistory", "getAIResponse", "createAiMessage"}

\* C16: the message of a SEND_MESSAGE is persisted once, as ASSISTANT with
\* the "[Marin]: " marker in front of its content if the admin flag of the
\* connection was set when it sent, as USER with the content as sent if the
\* flag was not set; a handler of an admin sender never reads the history,
\* calls the generator or broadcasts TYPING_START/TYPING_STOP, and goes on to
\* the session update with one persisted message and one MESSAGE_RECEIVED
C16_RoleOfSender ==
  [][\A t \in Tasks :
       /\ Executed(t, "createMessage")
            => /\ messages'[tasks[t].arg] =
                    Append(messages[tasks[t].arg],
                           IF tasks[t].asAdmin
                             THEN Row("ASSISTANT", Marin(tasks[t].content))
                             ELSE Row("USER", tasks[t].content))
               /\ \A s \in Sessions \ {tasks[t].arg} : messages'[s] = messages[s]
       /\ (tasks'[t].kind = "send" /\ tasks'[t].asAdmin)
            => /\ tasks'[t].pc \notin GeneratorPcs
               /\ \A i \in 1..Len(tasks'[t].evts) :
                    tasks'[t].evts[i].type = "MESSAGE_RECEIVED"
               /\ tasks'[t].pc = "updateSession"
                    => /\ tasks'[t].msgId # NoMsg
                       /\ tasks'[t].aiId = NoMsg
                       /\ Len(tasks'[t].evts) = 1]_vars

\* C17: the handler of a non-admin SEND_MESSAGE appends its USER message to
\* one session; when the generator returns text it appends that text as one
\* ASSISTANT message to the same session and broadcasts AI_RESPONSE for it,
\* when the generator returns nothing it appends and broadcasts nothing
\* more; and once the generator has returned the handler sends no ERROR
\* envelope
C17_OneReplyIfText ==
  [][\A t \in Tasks :
       (tasks[t].kind = "send" /\ ~tasks[t].asAdmin) =>
         /\ Executed(t, "createMessage")
              => messages' = create(messages, tasks[t].arg, "USER", tasks[t].content)
         /\ (tasks[t].pc = "getAIResponse" /\ tasks'[t].pc # "getAIResponse")
              => /\ messages' = messages
                 /\ tasks'[t].text = "" <=> tasks'[t].pc = "updateSession"
                 /\ tasks'[t].text # "" <=> tasks'[t].pc = "createAiMessage"
         /\ (tasks[t].pc = "createAiMessage" /\ tasks[t].pending
               /\ ~tasks'[t].pending)
              => messages' = create(messages, tasks[t].msgId[1], "ASSISTANT",
                                    tasks[t].text)
         /\ (AfterGenerator(t) /\ tasks'[t] # tasks[t])
              => /\ \A e \in sent' : e.type # "ERROR"
                 /\ \A e \in sent' :
                      e.type = "AI_RESPONSE" /\ e.id = tasks[t].aiId
                        /\ tasks[t].aiId # NoMsg
                 /\ tasks'[t] = IdleTask
                      => (tasks[t].pc = "updateSession"
                            /\ (tasks[t].text # "" <=> tasks[t].aiId # NoMsg))]_vars

\* the last n elements of a sequence, in the order of the sequence
MostRecent(seq, n) ==
  IF Len(seq) <= n THEN seq ELSE SubSeq(seq, Len(seq) - n + 1, Len(seq))

\* C18: the history a SEND_MESSAGE handler reads for the generator is the
\* most recent 20 (or fewer) messages of its session, oldest first, and
\* contains the message that triggered the call
C18_HistoryIsMostRecent ==
  [][\A t \in Tasks :
       Executed(t, "findHistory")
         => /\ tasks'[t].hist =
                 MostRecent(findMany(messages, tasks[t].arg), HistoryTake)
            /\ \E i \in 1..Len(tasks'[t].hist) :
                 tasks'[t].hist[i] = tasks[t].msgId]_vars

\* C19: a TYPING_START or TYPING_STOP of a bound connection is delivered,
\* with the sender's admin flag as payload, to exactly the other open members
\* of the sender's session: not to the sender, not to a connection bound
\* elsewhere; it persists nothing and changes no binding or membership
C19_TypingRelay ==
  [][\A c \in Peers, type \in TypingTypes :
       (clientState[c].sessionId # NULL /\ Typing(c, type)) =>
         LET S == clientState[c].sessionId IN
         /\ sent' = {Tagged(Envelope(d, type, "", S, NoMsg, <<>>),
                            clientState[c].isAdmin) :
                       d \in {p \in Peers \ {c} :
                                Member(p, S) /\ readyState[p] = "OPEN"}}
         /\ \A e \in sent' : e.to # c /\ BoundSession(e.to) = S
         /\ messages' = messages
         /\ clientState' = clientState
         /\ sessionClients' = sessionClients]_vars

\* a typing indicator tagged as an admin's has just been delivered, and a
\* bound admin connection is open
C19_Witness ==
  /\ \E e \in sent :
       e.type \in TypingTypes /\ "isAdmin" \in DOMAIN e /\ e.isAdmin
  /\ \E c \in Peers : readyState[c] = "OPEN" /\ clientState[c].isAdmin
                        /\ clientState[c].sessionId # NULL

\* C20: LEAVE_SESSION takes the connection out of the membership set of its
\* session (dropping the set when it becomes empty), clears its bound
\* session id and touches nothing else: the transport stays open and the
\* connection stays registered, so that it can join again; on an unbound
\* connection it changes nothing; neither sends anything; and removing from
\* the registry a connection that is in no set of the named session, or
\* naming a session that has no set, leaves the registry as it is
C20_Leave ==
  [][
      /\ \A c \in Peers :
          LeaveSession(c) =>
            /\ sent' = {}
            /\ readyState' = readyState /\ readyState'[c] = "OPEN"
            /\ clients' = clients /\ c \in clients'
            /\ clientState'[c].sessionId = NULL
            /\ clientState'[c].isAdmin = clientState[c].isAdmin
            /\ \A p \in Peers \ {c} : clientState'[p] = clientState[p]
            /\ \A s \in Sessions :
                 /\ ~(s \in DOMAIN sessionClients' /\ c \in sessionClients'[s])
                 /\ \A p \in Peers \ {c} :
                      (s \in DOMAIN sessionClients' /\ p \in sessionClients'[s])
                        <=> Member(p, s)
            /\ clientState[c].sessionId = NULL
                 => (clientState' = clientState /\ sessionClients' = sessionClients)
      /\ \A c \in Peers, s \in Sessions :
          ~Member(c, s) => leaveSession(sessionClients, c, s) = sessionClients
    ]_vars

\* a connection that had joined has left while the history read of its Join
\* was still outstanding; its transport is open
C20_Witness ==
  \E t \in Tasks :
    /\ tasks[t].kind = "join" /\ tasks[t].pc = "findMessages"
    /\ readyState[tasks[t].conn] = "OPEN"
    /\ clientState[tasks[t].conn].sessionId = NULL

\* the codes of the failures a client can cause or meet
FailureCodes ==
  {"VALIDATION_ERROR", "UNAUTHORIZED", "SESSION_NOT_FOUND", "NOT_IN_SESSION",
   "SESSION_CLOSED", "RATE_LIMITED", "UNKNOWN_MESSAGE_TYPE", "INVALID_MESSAGE"}

\* the step ends handler t
Ends(t) == Busy(t) /\ tasks'[t] = IdleTask

\* handler t has changed the binding of its connection: a Join past
\* `state.sessionId = sessionId`
HasBound(t) == tasks[t].kind = "join" /\ tasks[t].pc = "findMessages"

\* C21: a step that sends an ERROR envelope sends exactly one, with one of the
\* failure codes, and leaves every bound session id and every membership set
\* as they were; the envelope of a handler that ends goes to the connection of
\* that handler, the envelope answering inbound data that started no handler
\* goes to the connection the data came from; and an operation that ends
\* with an ERROR envelope has not changed the binding of its connection
\* before
C21_FailureChangesNothing ==
  [][
      /\ (\E e \in sent' : e.type = "ERROR")
            => /\ Cardinality(sent') = 1
               /\ \A e \in sent' : e.type = "ERROR" /\ e.code \in FailureCodes
               /\ \A c \in Peers :
                    clientState'[c].sessionId = clientState[c].sessionId
               /\ sessionClients' = sessionClients
               /\ clients' = clients
               /\ \A t \in Tasks : Ends(t) => \A e \in sent' : e.to = tasks[t].conn
      /\ \A c \in Peers :
            (UnknownType(c) \/ Malformed(c)) => \A e \in sent' : e.to = c
      /\ \A t \in Tasks :
            (HasBound(t) /\ Ends(t)) => \A e \in sent' : e.type # "ERROR"
    ]_vars

\* C22: when the call that persists the message of a SEND_MESSAGE is rejected
\* by the store, the handler ends with an ERROR envelope of code
\* INTERNAL_ERROR to the sender (while its transport is open), the message is
\* not in the store and no MESSAGE_RECEIVED is delivered
C22_PersistFailureEscalated ==
  [][\A t \in Tasks :
       (tasks[t].kind = "send" /\ tasks[t].pc = "createMessage"
          /\ tasks[t].threw /\ tasks'[t] # tasks[t])
         => /\ sent' = ErrorTo(tasks[t].conn, "INTERNAL_ERROR")
            /\ \A e \in sent' : e.type # "MESSAGE_RECEIVED"
            /\ tasks[t].msgId = NoMsg
            /\ messages' = messages
            /\ tasks'[t] = IdleTask]_vars

\* C23: an envelope of an unknown type is answered with UNKNOWN_MESSAGE_TYPE
\* to its sender and changes nothing; an ERROR envelope with code
\* INVALID_MESSAGE is sent only in answer to inbound data that does not parse
\* as an envelope, and the step that sends it changes no connection state, no
\* binding and no membership set
C23_UnknownAndInvalid ==
  [][
      /\ \A c \in Peers :
            UnknownType(c)
              => /\ sent' = {Envelope(c, "ERROR", "UNKNOWN_MESSAGE_TYPE", NULL,
                                      NoMsg, <<>>)}
                 /\ UNCHANGED <<clients, clientState, readyState, sessionClients,
                                sessions, messages, rl, tasks>>
      /\ (\E e \in sent' : e.code = "INVALID_MESSAGE")
            => /\ \E c \in Peers : Malformed(c)
               /\ UNCHANGED <<clients, clientState, readyState, sessionClients>>
    ]_vars

\* the next step of handler u: the store executes the call it awaits, or its
\* continuation runs
StepOf(u) ==
  \/ DbExec(u) \/ HandlerCatch(u)
  \/ JoinFound(u) \/ JoinSend(u)
  \/ SendRateChecked(u) \/ SendSessionChecked(u) \/ SendPersisted(u)
  \/ SendHistoryRead(u) \/ SendAiPersisted(u) \/ SendTouched(u)

\* C24: while the generator call of a SEND_MESSAGE handler is outstanding,
\* every other open connection can leave, type and close, can start a Join
\* of any session and a SendMessage (as long as the model has a handler slot
\* and room in the limiter's store for it), and every other handler in
\* flight that is not itself waiting for the generator can take its next
\* step: nothing waits for the generator to return
C24_GeneratorBlocksNobody ==
  \A t \in Tasks :
    (tasks[t].kind = "send" /\ tasks[t].pc = "getAIResponse") =>
      /\ \A c \in Peers \ {tasks[t].conn} :
           (readyState[c] = "OPEN" /\ c \in clients) =>
             /\ ENABLED LeaveSession(c)
             /\ \A type \in TypingTypes : ENABLED Typing(c, type)
             /\ ENABLED OnClose(c)
             /\ (\E u \in Tasks : ~Busy(u)) =>
                  /\ \A s \in Sessions :
                       ENABLED (\E u \in Tasks : JoinStart(u, c, s, FALSE, NoKey))
                  /\ Cardinality(Counted(clientState[c].ip, Clock(rl))) <= WsLimit =>
                       ENABLED (\E u \in Tasks :
                                  SendStart(u, c, "hello", TRUE, Clock(rl)))
      /\ \A u \in Tasks \ {t} :
           (Busy(u) /\ tasks[u].pc # "getAIResponse") => ENABLED StepOf(u)

\* the call of the first handler is still outstanding, and meanwhile another
\* connection has joined its session, sent a message that was persisted
\* there, and has just received the history of a further Join
C24_Witness ==
  /\ tasks[1].pc = "getAIResponse" /\ tasks[1].msgId = MsgId(1, 2)
  /\ Len(messages[1]) >= 3 /\ messages[1][3].role = "USER"
  /\ \E e \in sent :
       /\ e.type = "SESSION_JOINED" /\ e.to # tasks[1].conn
       /\ e.sid = 1 /\ Len(e.hist) >= 3

\* C25: the history read of a Join returns every message of the session
\* joined, in creation order; the handler then sends one SESSION_JOINED
\* envelope with that session and that history to the joining connection
\* (nothing if its transport is no longer open) and ends; and no step of a
\* Join handler delivers anything to another connection, whether it is in
\* the session joined, in the session left, or in none
C25_JoinedToCallerOnly ==
  [][\A t \in Tasks :
       /\ (tasks[t].kind = "join" /\ tasks[t].pc = "findMessages"
             /\ tasks[t].pending /\ ~tasks'[t].pending /\ ~tasks'[t].threw)
            => /\ tasks[t].arg = tasks[t].sessionId
               /\ tasks'[t].hist = [i \in 1..Len(messages[tasks[t].sessionId]) |->
                                      MsgId(tasks[t].sessionId, i)]
       /\ (tasks[t].kind = "join" /\ Ready(t, "findMessages")
             /\ tasks'[t] # tasks[t])
            => /\ sent' = IF readyState[tasks[t].conn] = "OPEN"
                            THEN {Envelope(tasks[t].conn, "SESSION_JOINED", "",
                                           tasks[t].sessionId, NoMsg, tasks[t].hist)}
                            ELSE {}
               /\ tasks'[t] = IdleTask
       /\ ((tasks[t].kind = "join" \/ tasks'[t].kind = "join")
             /\ tasks'[t] # tasks[t])
            => \A e \in sent' : e.to = tasks[t].conn]_vars

\* a connection has just been sent the history, of two messages or more, of a
\* session that has another open member
C25_Witness ==
  \E e \in sent :
    /\ e.type = "SESSION_JOINED"
    /\ Len(e.hist) >= 2 /\ Len(e.hist) = Len(messages[e.sid])
    /\ \E c \in Peers \ {e.to} : Member(c, e.sid) /\ readyState[c] = "OPEN"

\* C26: the step that changes the status of a session to CLOSED delivers a
\* SESSION_CLOSED event for that session to every open connection that is in
\* its membership set
C26_ClosedFanOut ==
  [][\A s \in Sessions :
       (sessions[s] # "CLOSED" /\ sessions'[s] = "CLOSED")
         => \A c \in Recipients(sessionClients, readyState, s, NULL) :
              \E e \in sent' :
                e.to = c /\ e.type = "SESSION_CLOSED" /\ e.sid = s]_vars

\* C27: a session comes into existence with status ACTIVE; the only change
\* of status is from ACTIVE to CLOSED; a CLOSED session stays CLOSED, and no
\* session is deleted
C27_StatusOneWay ==
  [][\A s \in Sessions :
       /\ sessions[s] = "NONE" => sessions'[s] \in {"NONE", "ACTIVE"}
       /\ sessions[s] = "ACTIVE" => sessions'[s] \in {"ACTIVE", "CLOSED"}
       /\ sessions[s] = "CLOSED" => sessions'[s] = "CLOSED"]_vars

\* a closed session that a connection is bound to and that has been replied
\* to, while another session is active
C27_Witness ==
  \E s, r \in Sessions :
    /\ sessions[s] = "CLOSED" /\ sessions[r] = "ACTIVE"
    /\ Len(messages[s]) >= 2
    /\ \E c \in Conns : BoundSession(c) = s

\* C28: no key of the membership index maps to an empty set
C28_NoEmptySet ==
  \A s \in DOMAIN sessionClients : sessionClients[s] # {}

\* the set of a session has been dropped: the Join that created it is still
\* waiting for the history, its connection has gone from the set meanwhile,
\* and the index holds the set of another session
C28_Witness ==
  \E t \in Tasks :
    /\ tasks[t].kind = "join" /\ tasks[t].pc = "findMessages"
    /\ tasks[t].sessionId \notin DOMAIN sessionClients
    /\ DOMAIN sessionClients # {}

C30_WindowSlides ==
  [][\A t \in Tasks, c \in Conns, content \in Contents, now \in Times :
       (tasks'[t].pc = "rateLimit" /\ Arrival(t)
          /\ SendStart(t, c, content, TRUE, now))
         => LET ip == clientState[c].ip IN
            /\ tasks'[t].allowed
                 <=> Cardinality({i \in 1..Len(rl[ip]) :
                                    now < rl[ip][i].at + Window}) < WsLimit
            /\ \A j \in 1..Len(rl'[ip]) : now < rl'[ip][j].at + Window
            /\ (rl[ip] # <<>> /\ now >= rl[ip][Len(rl[ip])].at + Window)
                 => /\ Held(rl, ip, Window, now) = <<>>
                    /\ tasks'[t].allowed
                    /\ rl'[ip] = <<Attempt(now, TRUE)>>]_vars

\* a key was checked a full window or more after its last attempt:
\* the store holds that one attempt
C30_Witness ==
  \E ip \in Ips :
    /\ rl[ip] # <<>> /\ \A i \in 1..Len(rl[ip]) : rl[ip][i].at >= Window
    /\ \E t \in Tasks : tasks[t].pc = "rateLimit" /\ tasks[t].allowed

\* C31: the check of a SEND_MESSAGE counts the attempts recorded under the
\* client identity of the sending connection, whichever connection made
\* them, and records its own attempt under that identity; the attempts of
\* every other identity are neither counted nor changed
C31_KeyedByIdentity ==
  [][\A t \in Tasks, c \in Peers, content \in Contents :
       (tasks'[t].pc = "rateLimit" /\ Arrival(t)
          /\ SendStart(t, c, content, TRUE, Clock(rl)))
         => LET ip == clientState[c].ip IN
            /\ tasks'[t].allowed <=> Len(rl[ip]) < WsLimit
            /\ rl'[ip] = Append(rl[ip], Attempt(Clock(rl), Len(rl[ip]) < WsLimit))
            /\ \A j \in Identities \ {ip} : rl'[j] = rl[j]
            /\ \A d \in Peers :
                 clientState[d].ip = ip =>
                   checkRateLimit(rl', rateKey(d), WsLimit, Window, Clock(rl)).allowed
                     = (Len(rl[ip]) + 1 < WsLimit)]_vars

\* a check of one identity has just been allowed although another identity
\* has used up its window and been refused; a second connection shares the
\* refused identity or the allowed one
C31_Witness ==
  \E t \in Tasks :
    /\ tasks[t].pc = "rateLimit" /\ tasks[t].allowed /\ ~tasks[t].threw
    /\ \E j \in Identities \ {clientState[tasks[t].conn].ip} :
         \E i \in 1..Len(rl[j]) : ~rl[j][i].ok

\* C32 as stated: a SEND_MESSAGE whose content has length 0 or more than 4000
\* is answered with VALIDATION_ERROR and has no other effect, whatever the
\* state of the connection that sends it
C32_AsStated ==
  [][\A t \in Tasks, c \in Conns, content \in Contents, up \in BOOLEAN,
        now \in Times :
       ((ContentLen(content) = 0 \/ ContentLen(content) > MaxContent)
          /\ Arrival(t) /\ SendStart(t, c, content, up, now))
         => /\ sent' = {Envelope(c, "ERROR", "VALIDATION_ERROR", NULL, NoMsg, <<>>)}
            /\ rl' = rl
            /\ tasks' = tasks
            /\ messages' = messages]_vars

\* C32: a SEND_MESSAGE of a bound connection whose content has length 0 or
\* more than 4000 is answered with VALIDATION_ERROR, records no rate-limit
\* attempt, starts no handler and changes nothing else; from an unbound
\* connection the same message is answered with NOT_IN_SESSION, the binding
\* being checked first; a SEND_MESSAGE with valid content of a bound
\* connection records its attempt before anything else is looked up, and
\* only a handler whose attempt was recorded and allowed reaches the status
\* check that answers SESSION_CLOSED
C32_InvalidContent ==
  [][
      /\ \A t \in Tasks, c \in Conns, content \in Contents, up \in BOOLEAN,
            now \in Times :
          (Arrival(t) /\ SendStart(t, c, content, up, now))
            => LET bad == ContentLen(content) = 0 \/ ContentLen(content) > MaxContent
                   ip  == clientState[c].ip
               IN
               /\ (bad /\ clientState[c].sessionId # NULL)
                    => /\ sent' = {Envelope(c, "ERROR", "VALIDATION_ERROR", NULL,
                                            NoMsg, <<>>)}
                       /\ UNCHANGED <<rl, tasks, messages, clientState,
                                      sessionClients, sessions>>
               /\ (bad /\ clientState[c].sessionId = NULL)
                    => /\ sent' = {Envelope(c, "ERROR", "NOT_IN_SESSION", NULL,
                                            NoMsg, <<>>)}
                       /\ UNCHANGED <<rl, tasks, messages>>
               /\ (~bad /\ clientState[c].sessionId # NULL /\ up)
                    => /\ Len(rl'[ip]) = Cardinality(Counted(ip, now)) + 1
                       /\ rl'[ip][Len(rl'[ip])] = Attempt(now, tasks'[t].allowed)
                       /\ sent' = {}
      /\ \A t \in Tasks :
          (\E e \in sent' : e.code = "SESSION_CLOSED") /\ Ends(t)
            => tasks[t].pc = "findSession"
      /\ \A t \in Tasks :
          (tasks'[t].pc = "findSession" /\ tasks[t].pc # "findSession")
            => tasks[t].pc = "rateLimit" /\ tasks[t].allowed /\ ~tasks[t].threw
    ]_vars

\* a bound connection has just been told that its content is invalid, after
\* an earlier message of the same identity had been counted
C32_Witness ==
  \E e \in sent :
    /\ e.code = "VALIDATION_ERROR"
    /\ clientState[e.to].sessionId # NULL
    /\ rl[clientState[e.to].ip] # Attempts(WsLimit - RaceRoom, 0)

\* C33: a handler that waits for the response generator stops waiting:
\* the call returns or is timed out, after which TYPING_STOP is broadcast
\* and the handler runs to its end
C33_GeneratorBounded ==
  \A t \in Tasks :
    (tasks[t].pc = "getAIResponse") ~> (tasks[t] = IdleTask)

\* the handler steps that call broadcastToSession(state.sessionId, _) with
\* nobody excluded
BroadcastStep(t) ==
  \/ SendPersisted(t)
  \/ SendHistoryRead(t)
  \/ \E content \in AiTexts : SendAiReturned(t, content)
  \/ SendAiPersisted(t)

\* C34: a broadcast writes one envelope to every member of the session's set
\* whose transport is open, the excluded connection apart, and to nobody
\* else; a member whose transport is not open is passed over, which changes
\* neither its state nor the membership nor what the other members get; for
\* a session that has no membership set nothing is written at all
C34_Broadcast ==
  [][
      /\ \A c \in Members, type \in TypingTypes :
          (clientState[c].sessionId # NULL /\ Typing(c, type))
            => LET S == clientState[c].sessionId IN
               /\ {e.to : e \in sent'}
                    = {d \in Members : Member(d, S) /\ d # c
                                         /\ readyState[d] = "OPEN"}
               /\ Cardinality(sent') = Cardinality({e.to : e \in sent'})
               /\ \A e \in sent' : e.type = type /\ e.sid = S
               /\ UNCHANGED <<readyState, sessionClients, clientState, clients>>
      /\ \A t \in Tasks :
          BroadcastStep(t)
            => LET S == clientState[tasks[t].conn].sessionId IN
               /\ {e.to : e \in sent'}
                    = {d \in Members : Member(d, S) /\ readyState[d] = "OPEN"}
               /\ Cardinality(sent') = Cardinality({e.to : e \in sent'})
               /\ \A e \in sent' : e.type # "ERROR" /\ e.sid = S
               /\ S \notin DOMAIN sessionClients
                    => sent' = {} /\ lastMsg' = lastMsg
               /\ UNCHANGED <<readyState, sessionClients, clientState, clients>>
    ]_vars

\* a broadcast has just reached one member of a session while another member
\* of the same session, whose transport is closing, got nothing
C34_Witness ==
  \E e \in sent :
    /\ e.type \in {"MESSAGE_RECEIVED", "TYPING_START", "AI_RESPONSE"}
    /\ \E d \in Members :
         /\ Member(d, e.sid)
         /\ readyState[d] = "CLOSING"
         /\ \A x \in sent : x.to # d

\* C35: a step of the server writes at most one envelope to a connection,
\* and an envelope that a broadcast writes to one open member of a session
\* it writes, in the same step, to every other open member (the sender of a
\* typing indicator apart); so two members that have been sent the same
\* messages of the session so far have been sent the same ones after any
\* step in which both are still open members, and get any two broadcasts in
\* the same order
C35_SameOrder ==
  [][
      /\ \A e1 \in sent', e2 \in sent' : e1.to = e2.to => e1 = e2
      /\ \A c \in Members, d \in Members, S \in Sessions :
          (Member(c, S) /\ Member(d, S)
             /\ readyState[c] = "OPEN" /\ readyState[d] = "OPEN")
            => /\ \A e \in sent' :
                    (e.type # "ERROR" /\ e.sid = S /\ e.to = c
                       /\ ~(\E type \in TypingTypes : Typing(d, type)))
                      => [e EXCEPT !.to = d] \in sent'
               /\ lastMsg[c][S] = lastMsg[d][S]
                    => lastMsg'[c][S] = lastMsg'[d][S]
    ]_vars

\* two members of the session, both open, have each been sent the visitor's
\* message and then the generator's answer to it
C35_Witness ==
  \E c \in Members, d \in Members :
    /\ c # d
    /\ Member(c, 1) /\ Member(d, 1)
    /\ readyState[c] = "OPEN" /\ readyState[d] = "OPEN"
    /\ lastMsg[c][1] = 3 /\ lastMsg[d][1] = 3
    /\ \E e \in sent : e.type = "AI_RESPONSE" /\ e.to = c

\* C36: the admin flag of a connection is false when the connection is
\* made; a step turns it on only if it is the start of a JOIN_SESSION of
\* that connection, and every JOIN_SESSION that turns it on claims to be the
\* admin with the configured key; no step turns it off, whether a leave, a
\* join that does not claim to be the admin or a join with the key whose
\* session is then not found; and a message that arrived while the flag was
\* on is stored with role ASSISTANT and the [Marin] prefix
C36_AdminFlag ==
  [][
      /\ \A c \in Peers, ip \in Ips : Connect(c, ip) => ~clientState'[c].isAdmin
      /\ \A c \in Peers :
          (~clientState[c].isAdmin /\ clientState'[c].isAdmin)
            => \E t \in Tasks, s \in Sessions \cup {BadId}, a \in BOOLEAN,
                  key \in AdminKeys : JoinStart(t, c, s, a, key)
      /\ \A t \in Tasks, c \in Peers, s \in Sessions \cup {BadId},
            a \in BOOLEAN, key \in AdminKeys :
          (clientState'[c].isAdmin /\ ~clientState[c].isAdmin
             /\ JoinStart(t, c, s, a, key))
            => a /\ key = ADMIN_API_KEY
      /\ \A c \in Peers : clientState[c].isAdmin => clientState'[c].isAdmin
      /\ \A t \in Tasks :
          (tasks[t].kind = "send" /\ tasks[t].asAdmin
             /\ tasks[t].pc = "createMessage" /\ messages' # messages)
            => \E s \in Sessions :
                 /\ messages' = create(messages, s, "ASSISTANT",
                                       "[Marin]: " \o tasks[t].content)
    ]_vars

\* an admin's message has been stored as the assistant's, and its connection,
\* no longer bound to a session, still has the admin flag
C36_Witness ==
  \E c \in Peers, s \in Sessions :
    /\ clientState[c].isAdmin
    /\ clientState[c].sessionId = NULL
    /\ readyState[c] = "OPEN"
    /\ \E i \in 1..Len(messages[s]) :
         messages[s][i] = [role |-> "ASSISTANT", content |-> "[Marin]: hello"]

\* connection c is bound to session S, is in its set, and no Join of c is
\* under way: the history of its SESSION_JOINED has been read
Joined(c, S) ==
  /\ S # NULL
  /\ clientState[c].sessionId = S
  /\ Member(c, S)
  /\ readyState[c] = "OPEN"
  /\ \A u \in Tasks : ~(tasks[u].kind = "join" /\ tasks[u].conn = c)

\* C37: when a SEND_MESSAGE handler gets to the broadcast for a message it
\* has persisted in session S (the visitor's message, or the assistant's
\* answer), every open connection that had finished joining S before and is
\* still bound to S is sent that message; with the history that holds every
\* message persisted before the connection was added to the set, nothing of
\* S is missing at a connection that stays bound
C37_NoGapOnJoin ==
  [][\A t \in Tasks, c \in Peers :
       /\ (tasks[t].kind = "send" /\ Ready(t, "createMessage")
             /\ tasks'[t].pc # "createMessage"
             /\ Joined(c, tasks[t].msgId[1]))
            => \E e \in sent' :
                 e.to = c /\ e.type = "MESSAGE_RECEIVED" /\ e.id = tasks[t].msgId
       /\ (tasks[t].kind = "send" /\ Ready(t, "createAiMessage")
             /\ tasks'[t].pc # "createAiMessage"
             /\ Joined(c, tasks[t].aiId[1]))
            => \E e \in sent' :
                 e.to = c /\ e.type = "AI_RESPONSE" /\ e.id = tasks[t].aiId]_vars

\* C38: the messages of a session are returned only to a requester whose
\* identity is the visitorId of the session or who presents the configured
\* admin key; a requester of another identity with no admin key or a wrong
\* one is answered FORBIDDEN, without messages
C38_MessagesOwnerOrAdmin ==
  [][\A s \in Sessions, ip \in Identities, header \in AdminKeys :
       (sessions[s] # "NONE" /\ GetMessages(s, ip, header)
          /\ visitorIdOf(s) # ip /\ header # ADMIN_API_KEY)
         => \A e \in sent' : e.code = "FORBIDDEN" /\ e.hist = <<>>]_vars

====
